---- MODULE Spec2Model ----
(***************************************************************************)
(* Model of the EmailBuilder renderer service: design-token resolution     *)
(* (loadDesignTokens), the block compilers (hero, items, recommendations,  *)
(* footer), the MJML document template (generateMJML) and the POST /render *)
(* handler with its call into the mjml library; the POST /compile handler; *)
(* the page of the front end with its progress loader and the streams the  *)
(* loader reads; and the two proxy routes of the front end.                *)
(*                                                                         *)
(* Markup is a sequence of string pieces: the literal chunks of a template *)
(* string and the interpolated values, in template order.  Whitespace of   *)
(* the template literals (and therefore .trim()) is not represented.       *)
(* JavaScript values: Undefined and Null are markers; a JSON array or      *)
(* object is a record [js, elems] whose js field is "array", "object" (a   *)
(* truthy value that is not an array, e.g. {}), "undefined" or "null".     *)
(***************************************************************************)
EXTENDS Integers, Sequences, FiniteSets, TLC

VARIABLES pc, req, tokens, mjmlBlocks, mjmlContent, lowered, thrown, res,
          consoleLog, steps, mOverride, mTokens, parked,
          \* the page (Home) and its progress loader (MultiAgentLoader)
          isGenerating, showMultiAgentLoader, result, generationError,
          currentStep, progress, activeAgent, completedAgents,
          streams, timers, generation, lastCall,
          \* the proxy routes of the front end
          route, proxyPc, upstream, proxyThrown, proxyRes, proxyLog

pageVars == <<isGenerating, showMultiAgentLoader, result, generationError,
              currentStep, progress, activeAgent, completedAgents,
              streams, timers, generation, lastCall>>

proxyVars == <<route, proxyPc, upstream, proxyThrown, proxyRes, proxyLog>>

vars == <<pc, req, tokens, mjmlBlocks, mjmlContent, lowered, thrown, res,
          consoleLog, steps, mOverride, mTokens, parked, pageVars, proxyVars>>

renderVars == <<pc, req, tokens, mjmlBlocks, mjmlContent, lowered, thrown,
                res, consoleLog, steps>>

(* ---------------------------- bounds ----------------------------------- *)
MaxBlocks == 2
MaxItems == 4
MaxIssues == 2
MaxOverrideLeaves == 2

(* ------------------------ JavaScript values ---------------------------- *)
Undefined == "\\undefined"
Null == "\\null"

\* A bug variant: a test against undefined alone ('' and null pass).
TruthyDefined(v) == v # Undefined

\* JavaScript truthiness of a scalar: undefined, null and '' are falsy.
Truthy(v) == v \notin {Undefined, Null, ""}

\* String(v) as done by template-literal interpolation ${v}.
Str(v) == IF v = Undefined THEN "undefined" ELSE IF v = Null THEN "null" ELSE v

\* The object literal {}.
EmptyObject == << >>

\* Object spread { ...a, ...b }: own keys of both, b wins on a shared key.
Spread(a, b) ==
  [k \in (DOMAIN a) \cup (DOMAIN b) |-> IF k \in DOMAIN b THEN b[k] ELSE a[k]]

\* Property read obj.k1.k2...: undefined when a key is missing.
RECURSIVE GetPath(_, _)
GetPath(obj, path) ==
  IF path = << >> THEN obj
  ELSE IF Head(path) \in DOMAIN obj THEN GetPath(obj[Head(path)], Tail(path))
  ELSE Undefined

(* ---------------------------- design tokens ---------------------------- *)
defaultTokens ==
  [colors |-> [primary |-> "#2563eb", onPrimary |-> "#ffffff",
               secondary |-> "#64748b", background |-> "#f8fafc",
               surface |-> "#ffffff", text |-> "#1e293b",
               textSecondary |-> "#64748b"],
   fonts |-> [heading |-> [family |-> "Arial, sans-serif", size |-> "24px",
                           weight |-> "700", lineHeight |-> "1.2"],
              body |-> [family |-> "Arial, sans-serif", size |-> "16px",
                        weight |-> "400", lineHeight |-> "1.5"]],
   spacing |-> [xs |-> "4px", sm |-> "8px", md |-> "16px", lg |-> "24px",
                xl |-> "32px", xxl |-> "48px"],
   radius |-> [button |-> "6px", card |-> "8px"]]

KnownCategories == {"cart_abandon", "post_purchase", "order_confirmation"}

\* The value a category's override gives colors.primary.
PrimaryOf(category) ==
  CASE category = "cart_abandon" -> "#dc2626"
    [] category = "post_purchase" -> "#059669"
    [] category = "order_confirmation" -> "#2563eb"

\* A bug variant: the override names colors.primary alone.
templateOverridesBare ==
  [c \in KnownCategories |-> [colors |-> [primary |-> PrimaryOf(c)]]]

templateOverrides ==
  [c \in KnownCategories |->
     [colors |-> Spread(defaultTokens.colors, [primary |-> PrimaryOf(c)])]]

\* Keys every object literal inherits from Object.prototype: the lookup
\* yields a function or object with no own enumerable property, so the
\* spread of it adds nothing.
InheritedKeys == {"constructor", "toString", "__proto__"}

\* A bug variant: an unlisted category gets the cart_abandon override.
OverrideLookupFallback(templateType) ==
  IF templateType \in DOMAIN templateOverrides THEN templateOverrides[templateType]
  ELSE templateOverrides["cart_abandon"]

\* templateOverrides[templateType] || {}, as seen by the spread.
OverrideLookup(templateType) ==
  IF templateType \in DOMAIN templateOverrides THEN templateOverrides[templateType]
  ELSE IF templateType \in InheritedKeys THEN EmptyObject
  ELSE EmptyObject

\* A bug variant: a merge that keeps only what the override names.
MergeOverrideOnly(base, override) ==
  IF DOMAIN override = {} THEN base ELSE override

\* return { ...defaultTokens, ...override }
MergeOverride(base, override) == Spread(base, override)

loadDesignTokens(templateType) ==
  MergeOverride(defaultTokens, OverrideLookup(Str(templateType)))

\* Every leaf path of a design-token set.
LeafPaths ==
  {<<"colors", k>> : k \in DOMAIN defaultTokens.colors}
    \cup {<<"fonts", "heading", k>> : k \in DOMAIN defaultTokens.fonts.heading}
    \cup {<<"fonts", "body", k>> : k \in DOMAIN defaultTokens.fonts.body}
    \cup {<<"spacing", k>> : k \in DOMAIN defaultTokens.spacing}
    \cup {<<"radius", k>> : k \in DOMAIN defaultTokens.radius}

\* tokens.a.b and tokens.a.b.c
Tk(t, a, b) == Str(GetPath(t, <<a, b>>))
Tk3(t, a, b, c) == Str(GetPath(t, <<a, b, c>>))

(* ---------------------------- request values --------------------------- *)
\* A JSON array value with the given elements.
Arr(elems) == [js |-> "array", elems |-> elems]
\* A value that is not there (undefined), null, or a truthy non-array ({}).
NoValue == [js |-> "undefined", elems |-> << >>]
NullValue == [js |-> "null", elems |-> << >>]
ObjValue == [js |-> "object", elems |-> << >>]

\* !v for an array-or-object valued field.
Falsy(v) == v.js \in {"undefined", "null"}

Product(n) ==
  [sku |-> "sku" \o n, name |-> "name" \o n, price |-> "price" \o n,
   imageUrl |-> "img" \o n, url |-> "url" \o n]

Products == <<Product("1"), Product("2"), Product("3"), Product("4"),
              Product("5"), Product("6")>>

\* The item sequences a block may carry: the first n products, n <= MaxItems.
ItemValues ==
  {NoValue, ObjValue} \cup {Arr(SubSeq(Products, 1, n)) : n \in 0..MaxItems}

Block(js, type, headline, subcopy, imageUrl, title, items, legal, prefs, unsub) ==
  [js |-> js, type |-> type, headline |-> headline, subcopy |-> subcopy,
   imageUrl |-> imageUrl, title |-> title, items |-> items, legal |-> legal,
   preferencesUrl |-> prefs, unsubscribeUrl |-> unsub, customHtml |-> Undefined]

\* A null entry of the blocks array.
NullBlock ==
  Block("null", Undefined, Undefined, Undefined, Undefined, Undefined,
        NoValue, Undefined, Undefined, Undefined)

HeroBlock(headline, subcopy, imageUrl) ==
  Block("object", "hero", headline, subcopy, imageUrl, Undefined, NoValue,
        Undefined, Undefined, Undefined)

\* The hero block the orchestrator builds from an uploaded HTML template:
\* the whole HTML travels in customHtml.
HeroCustomBlock(headline, customHtml) ==
  [HeroBlock(headline, Undefined, Undefined) EXCEPT !.customHtml = customHtml]

ItemsBlock(type, title, items) ==
  Block("object", type, Undefined, Undefined, Undefined, title, items,
        Undefined, Undefined, Undefined)

FooterBlock(legal, prefs, unsub) ==
  Block("object", "footer", Undefined, Undefined, Undefined, Undefined,
        NoValue, legal, prefs, unsub)

OtherBlock(type) ==
  Block("object", type, Undefined, Undefined, Undefined, Undefined, NoValue,
        Undefined, Undefined, Undefined)

KnownTypes == {"hero", "items", "recommendations", "footer"}
UnknownTypes == {"banner", Undefined}

BlockValues ==
  {NullBlock}
    \cup {HeroBlock("H", s, i) : s \in {Undefined, "", "Sub"},
                                 i \in {Undefined, "", "hero.png"}}
    \cup {HeroCustomBlock("H", "<p>custom</p>")}
    \cup {ItemsBlock("items", "Cart", it) : it \in ItemValues}
    \cup {ItemsBlock("recommendations", "Recs", it) : it \in ItemValues}
    \cup {FooterBlock("L", "pu", "uu")}
    \cup {OtherBlock(t) : t \in UnknownTypes}

RECURSIVE SeqsUpTo(_, _)
SeqsUpTo(S, n) ==
  IF n = 0 THEN {<< >>}
  ELSE LET shorter == SeqsUpTo(S, n - 1)
       IN  shorter \cup {Append(s, x) : s \in {t \in shorter : Len(t) = n - 1}, x \in S}

BlocksValues ==
  {NoValue, NullValue, ObjValue} \cup {Arr(s) : s \in SeqsUpTo(BlockValues, MaxBlocks)}

TemplateTypeValues ==
  {Undefined} \cup KnownCategories \cup {"newsletter", "constructor"}

\* req.body of POST /render, as parsed by express.json().
Bodies ==
  [templateType : TemplateTypeValues, subject : {"S"}, preheader : {"P"},
   blocks : BlocksValues]

NoBody == [templateType |-> Undefined, subject |-> Undefined,
           preheader |-> Undefined, blocks |-> NoValue]

(* ---------------------------- block compilers -------------------------- *)
RECURSIVE Flatten(_)
\* array.join(''): the concatenation of the pieces.
Flatten(ss) == IF ss = << >> THEN << >> ELSE Head(ss) \o Flatten(Tail(ss))

RECURSIVE Join(_, _)
\* array.join(sep)
Join(ss, sep) ==
  IF ss = << >> THEN << >>
  ELSE IF Len(ss) = 1 THEN ss[1]
  ELSE ss[1] \o <<sep>> \o Join(Tail(ss), sep)

heroComponent(block, t) ==
  <<"<mj-section background-color=", Tk(t, "colors", "surface"),
    " css-class=section-spacing>", "<mj-column>">>
  \o (IF Truthy(block.imageUrl)
      THEN <<"<mj-image src=", Str(block.imageUrl), " alt=", Str(block.headline),
             " align=center border-radius=", Tk(t, "radius", "card"),
             " padding-bottom=", Tk(t, "spacing", "lg"), "/>">>
      ELSE << >>)
  \o <<"<mj-text align=center font-size=", Tk3(t, "fonts", "heading", "size"),
       " font-weight=", Tk3(t, "fonts", "heading", "weight"),
       " line-height=", Tk3(t, "fonts", "heading", "lineHeight"),
       " color=", Tk(t, "colors", "text"),
       " padding-bottom=", Tk(t, "spacing", "md"), ">",
       Str(block.headline), "</mj-text>">>
  \o (IF Truthy(block.subcopy)
      THEN <<"<mj-text align=center font-size=", Tk3(t, "fonts", "body", "size"),
             " color=", Tk(t, "colors", "textSecondary"),
             " padding-bottom=", Tk(t, "spacing", "lg"), ">",
             Str(block.subcopy), "</mj-text>">>
      ELSE << >>)
  \o <<"</mj-column>", "</mj-section>">>

\* One product column of the items block.
itemsColumn(item, t) ==
  <<"<mj-column width=33.33% padding=", Tk(t, "spacing", "sm"), ">",
    "<mj-image src=", Str(item.imageUrl), " alt=", Str(item.name),
    " align=center border-radius=", Tk(t, "radius", "card"),
    " padding-bottom=", Tk(t, "spacing", "sm"), " href=", Str(item.url), "/>",
    "<mj-text align=center font-size=14px font-weight=600 color=",
    Tk(t, "colors", "text"), " padding-bottom=", Tk(t, "spacing", "xs"), ">",
    Str(item.name), "</mj-text>",
    "<mj-text align=center font-size=", Tk3(t, "fonts", "body", "size"),
    " color=", Tk(t, "colors", "primary"), " font-weight=700 padding-bottom=",
    Tk(t, "spacing", "sm"), ">", Str(item.price), "</mj-text>",
    "<mj-button href=", Str(item.url), " background-color=",
    Tk(t, "colors", "primary"), " color=", Tk(t, "colors", "onPrimary"),
    " font-size=14px padding=", Tk(t, "spacing", "xs"), " ",
    Tk(t, "spacing", "md"), " border-radius=", Tk(t, "radius", "button"), ">",
    "Visualizza", "</mj-button>", "</mj-column>">>

\* One product column of the recommendations block.
recommendationsColumn(item, t) ==
  <<"<mj-column width=33.33% padding=", Tk(t, "spacing", "sm"), ">",
    "<mj-image src=", Str(item.imageUrl), " alt=", Str(item.name),
    " align=center border-radius=", Tk(t, "radius", "card"),
    " padding-bottom=", Tk(t, "spacing", "sm"), " href=", Str(item.url), "/>",
    "<mj-text align=center font-size=14px font-weight=600 color=",
    Tk(t, "colors", "text"), " padding-bottom=", Tk(t, "spacing", "xs"), ">",
    Str(item.name), "</mj-text>",
    "<mj-text align=center font-size=", Tk3(t, "fonts", "body", "size"),
    " color=", Tk(t, "colors", "primary"), " font-weight=700 padding-bottom=",
    Tk(t, "spacing", "sm"), ">", Str(item.price), "</mj-text>",
    "<mj-button href=", Str(item.url), " background-color=transparent color=",
    Tk(t, "colors", "primary"), " font-size=14px padding=",
    Tk(t, "spacing", "xs"), " ", Tk(t, "spacing", "md"), " border=",
    Tk(t, "colors", "primary"), " 1px solid border-radius=",
    Tk(t, "radius", "button"), ">", "Scopri", "</mj-button>", "</mj-column>">>

\* The title section and the opening of the item section of both list blocks.
listSections(title, background, itemsMarkup, t) ==
  <<"<mj-section background-color=", background,
    " css-class=section-spacing>", "<mj-column>",
    "<mj-text align=center font-size=", Tk3(t, "fonts", "heading", "size"),
    " font-weight=", Tk3(t, "fonts", "heading", "weight"),
    " color=", Tk(t, "colors", "text"),
    " padding-bottom=", Tk(t, "spacing", "lg"), ">", Str(title), "</mj-text>",
    "</mj-column>", "</mj-section>",
    "<mj-section background-color=", background, ">">>
  \o itemsMarkup \o <<"</mj-section>">>

Min3(n) == IF n < 3 THEN n ELSE 3

\* A bug variant: the guard forgets the empty array.
itemsComponentNoLengthCheck(block, t) ==
  IF Falsy(block.items)
  THEN << >>
  ELSE listSections(block.title, Tk(t, "colors", "background"),
         Flatten([k \in 1..Len(block.items.elems) |->
                    itemsColumn(block.items.elems[k], t)]), t)

\* A bug variant: the items block caps its list as recommendations does.
itemsComponentCapped(block, t) ==
  IF Falsy(block.items) \/ (block.items.js = "array" /\ Len(block.items.elems) = 0)
  THEN << >>
  ELSE listSections(block.title, Tk(t, "colors", "background"),
         Flatten([k \in 1..Min3(Len(block.items.elems)) |->
                    itemsColumn(block.items.elems[k], t)]), t)

itemsComponent(block, t) ==
  IF Falsy(block.items) \/ (block.items.js = "array" /\ Len(block.items.elems) = 0)
  THEN << >>
  ELSE listSections(block.title, Tk(t, "colors", "background"),
         Flatten([k \in 1..Len(block.items.elems) |->
                    itemsColumn(block.items.elems[k], t)]), t)

\* A bug variant: no cap on the items.
SliceAll(s) == s

\* items.slice(0, 3)
Slice3(s) == SubSeq(s, 1, IF Len(s) < 3 THEN Len(s) ELSE 3)

recommendationsComponent(block, t) ==
  IF Falsy(block.items) \/ (block.items.js = "array" /\ Len(block.items.elems) = 0)
  THEN << >>
  ELSE listSections(block.title, Tk(t, "colors", "surface"),
         Flatten([k \in 1..Len(Slice3(block.items.elems)) |->
                    recommendationsColumn(Slice3(block.items.elems)[k], t)]), t)

\* A bug variant: the two links of the footer change places.
footerComponentSwapped(block, t) ==
  <<"<mj-section background-color=", Tk(t, "colors", "secondary"),
    " padding-top=", Tk(t, "spacing", "xxl"), ">", "<mj-column>",
    "<mj-divider border-color=", Tk(t, "colors", "textSecondary"),
    " border-width=1px padding-bottom=", Tk(t, "spacing", "lg"), "/>",
    "<mj-text align=center font-size=12px color=",
    Tk(t, "colors", "textSecondary"), " padding-bottom=", Tk(t, "spacing", "md"),
    ">", Str(block.legal), "</mj-text>",
    "<mj-text align=center font-size=12px color=",
    Tk(t, "colors", "textSecondary"), " padding-bottom=", Tk(t, "spacing", "lg"),
    ">", "<a href=", Str(block.unsubscribeUrl), " style=color: ",
    Tk(t, "colors", "textSecondary"), "; text-decoration: underline;>",
    "Annulla iscrizione", "</a>", "&nbsp;|&nbsp;",
    "<a href=", Str(block.preferencesUrl), " style=color: ",
    Tk(t, "colors", "textSecondary"), "; text-decoration: underline;>",
    "Gestisci preferenze", "</a>", "</mj-text>", "</mj-column>", "</mj-section>">>

footerComponent(block, t) ==
  <<"<mj-section background-color=", Tk(t, "colors", "secondary"),
    " padding-top=", Tk(t, "spacing", "xxl"), ">", "<mj-column>",
    "<mj-divider border-color=", Tk(t, "colors", "textSecondary"),
    " border-width=1px padding-bottom=", Tk(t, "spacing", "lg"), "/>",
    "<mj-text align=center font-size=12px color=",
    Tk(t, "colors", "textSecondary"), " padding-bottom=", Tk(t, "spacing", "md"),
    ">", Str(block.legal), "</mj-text>",
    "<mj-text align=center font-size=12px color=",
    Tk(t, "colors", "textSecondary"), " padding-bottom=", Tk(t, "spacing", "lg"),
    ">", "<a href=", Str(block.preferencesUrl), " style=color: ",
    Tk(t, "colors", "textSecondary"), "; text-decoration: underline;>",
    "Gestisci preferenze", "</a>", "&nbsp;|&nbsp;",
    "<a href=", Str(block.unsubscribeUrl), " style=color: ",
    Tk(t, "colors", "textSecondary"), "; text-decoration: underline;>",
    "Annulla iscrizione", "</a>", "</mj-text>", "</mj-column>", "</mj-section>">>

(* ---------------------------- generateMJML ----------------------------- *)
\* Whether compiling the block raises a TypeError: block.type of a null
\* entry, or items.map of a truthy value that is not an array.
BlockThrows(block) ==
  \/ block.js = "null"
  \/ /\ block.type \in {"items", "recommendations"}
     /\ block.items.js = "object"

\* The switch of blocks.map's callback.
compileBlock(block, t) ==
  CASE block.type = "hero" -> heroComponent(block, t)
    [] block.type = "items" -> itemsComponent(block, t)
    [] block.type = "recommendations" -> recommendationsComponent(block, t)
    [] block.type = "footer" -> footerComponent(block, t)
    [] OTHER -> << >>

\* console.warn(`Unknown block type: ${block.type}`) of the default arm.
UnknownWarning(block) ==
  [level |-> "warn", args |-> <<"Unknown block type: ", Str(block.type)>>]

\* Index of the first block whose compilation throws, 0 when none does.
FirstThrow(blocks) ==
  IF \E k \in 1..Len(blocks) : BlockThrows(blocks[k])
  THEN CHOOSE k \in 1..Len(blocks) :
         /\ BlockThrows(blocks[k])
         /\ \A j \in 1..(k - 1) : ~BlockThrows(blocks[j])
  ELSE 0

RECURSIVE WarningsOf(_)
\* The console.warn entries the map callback makes over the given blocks.
WarningsOf(blocks) ==
  IF blocks = << >> THEN << >>
  ELSE (IF Head(blocks).type \in KnownTypes THEN << >>
        ELSE <<UnknownWarning(Head(blocks))>>) \o WarningsOf(Tail(blocks))

\* A bug variant: fragments joined in reverse document order.
MapBlocksReversed(blocks, t) ==
  [k \in 1..Len(blocks) |-> compileBlock(blocks[Len(blocks) + 1 - k], t)]

\* blocks.map(block => ...): one fragment per block, in document order.
MapBlocks(blocks, t) == [k \in 1..Len(blocks) |-> compileBlock(blocks[k], t)]

\* A bug variant: the body is emitted ahead of the head.
AssembleBodyFirst(subject, preheader, t, body) ==
  <<"<mjml>", "<mj-body background-color=", Tk(t, "colors", "background"), ">">>
  \o body
  \o <<"</mj-body>", "<mj-head>", "<mj-title>", Str(subject), "</mj-title>",
       "<mj-preview>", Str(preheader), "</mj-preview>", "</mj-head>", "</mjml>">>

\* The document template string of generateMJML.
Assemble(subject, preheader, t, body) ==
  <<"<mjml>", "<mj-head>", "<mj-title>", Str(subject), "</mj-title>",
    "<mj-preview>", Str(preheader), "</mj-preview>", "<mj-attributes>",
    "<mj-text color=", Tk(t, "colors", "text"),
    " font-family=", Tk3(t, "fonts", "body", "family"),
    " font-size=", Tk3(t, "fonts", "body", "size"),
    " line-height=", Tk3(t, "fonts", "body", "lineHeight"), "/>",
    "<mj-button background-color=", Tk(t, "colors", "primary"),
    " color=", Tk(t, "colors", "onPrimary"),
    " font-family=", Tk3(t, "fonts", "body", "family"),
    " border-radius=", Tk(t, "radius", "button"), "/>", "</mj-attributes>",
    "<mj-style>", ".content-padding { padding: ", Tk(t, "spacing", "md"), " ",
    Tk(t, "spacing", "lg"), "; }", ".section-spacing { padding-top: ",
    Tk(t, "spacing", "xl"), "; padding-bottom: ", Tk(t, "spacing", "xl"), "; }",
    "</mj-style>", "</mj-head>",
    "<mj-body background-color=", Tk(t, "colors", "background"), ">">>
  \o body \o <<"</mj-body>", "</mjml>">>

(* ---------------------------- lowering (mjml) -------------------------- *)
Issues == <<"issue1", "issue2", "issue3">>

\* The errors field of what mjml() returns under validationLevel 'soft':
\* absent, or the list of the first n issues.
ErrorsValues == {NoValue} \cup {Arr(SubSeq(Issues, 1, n)) : n \in 0..MaxIssues}

\* The html mjml() produces for a document.
Html(markup) == <<"<!doctype html>">> \o markup

NoMarkup == << >>
NoTokens == EmptyObject
NoLowered == [html |-> NoMarkup, errors |-> NoValue]
NoResponse == [status |-> 0, body |-> EmptyObject]

(* ----------------------- front end: initial state ---------------------- *)
\* Generations the user starts, and chunks the streams deliver in all.
MaxGenerations == 2
MaxChunks == 3

\* useState(null)
NoResult == [js |-> "null"]
NoStep == [js |-> "null"]
NoStream == [state |-> "none", chunks |-> 0]
NoCall == [stream |-> 0, kind |-> "none", generation |-> 0, visible |-> FALSE]

\* The useState initial values of Home and of MultiAgentLoader; no stream
\* has been started and no deferred call is pending.
InitPage ==
  /\ isGenerating = FALSE
  /\ showMultiAgentLoader = FALSE
  /\ result = NoResult
  /\ generationError = Null
  /\ currentStep = NoStep
  /\ progress = 0
  /\ activeAgent = "supervisor"
  /\ completedAgents = {}
  /\ streams = [s \in 1..MaxGenerations |-> NoStream]
  /\ timers = << >>
  /\ generation = 0
  /\ lastCall = NoCall

NoUpstream == [status |-> 0, statusText |-> "", parsable |-> FALSE, json |-> EmptyObject]

\* No request is being proxied.
InitProxy ==
  /\ route = "none"
  /\ proxyPc = "idle"
  /\ upstream = NoUpstream
  /\ proxyThrown = ""
  /\ proxyRes = NoResponse
  /\ proxyLog = << >>

(* ---------------------------- POST /render ----------------------------- *)
\* The locals of a call of the handler that has not received its request.
\* parked holds the locals of a second call in flight while the variables
\* above hold those of the call that is running.
IdleCall ==
  [pc |-> "idle", req |-> NoBody, tokens |-> NoTokens, mjmlBlocks |-> NoMarkup,
   mjmlContent |-> NoMarkup, lowered |-> NoLowered, thrown |-> "",
   res |-> NoResponse, consoleLog |-> << >>, steps |-> << >>]

Init ==
  /\ pc = "idle"
  /\ req = NoBody
  /\ tokens = NoTokens
  /\ mjmlBlocks = NoMarkup
  /\ mjmlContent = NoMarkup
  /\ lowered = NoLowered
  /\ thrown = ""
  /\ res = NoResponse
  /\ consoleLog = << >>
  /\ steps = << >>
  /\ mOverride = EmptyObject
  /\ mTokens = EmptyObject
  /\ parked = IdleCall
  /\ InitPage
  /\ InitProxy

\* A request arrives with its parsed JSON body.
Receive ==
  /\ pc = "idle"
  /\ \E body \in Bodies : req' = body
  /\ pc' = "validate"
  /\ UNCHANGED <<tokens, mjmlBlocks, mjmlContent, lowered, thrown, res,
                 consoleLog, steps, mOverride, mTokens, parked,
                 pageVars, proxyVars>>

\* The handler has returned: its locals are gone and the service waits for
\* the next request.  consoleLog holds the output of one request only.
Return ==
  /\ pc = "done"
  /\ pc' = "idle"
  /\ req' = NoBody
  /\ tokens' = NoTokens
  /\ mjmlBlocks' = NoMarkup
  /\ mjmlContent' = NoMarkup
  /\ lowered' = NoLowered
  /\ thrown' = ""
  /\ res' = NoResponse
  /\ consoleLog' = << >>
  /\ steps' = << >>
  /\ UNCHANGED <<mOverride, mTokens, parked,
                 pageVars, proxyVars>>

\* A bug variant: the check forgets the blocks field.
MissingTypeOnly(body) == ~Truthy(body.templateType)

\* A bug variant: an empty blocks array counts as missing.
MissingOrEmpty(body) ==
  \/ ~Truthy(body.templateType)
  \/ Falsy(body.blocks)
  \/ (body.blocks.js = "array" /\ body.blocks.elems = << >>)

\* !templateType || !blocks
MissingRequired(body) == ~Truthy(body.templateType) \/ Falsy(body.blocks)

\* if (!templateType || !blocks) return res.status(400).json(...)
ValidateReject ==
  /\ pc = "validate"
  /\ MissingRequired(req)
  /\ res' = [status |-> 400,
             body |-> [error |-> "Missing required fields: templateType, blocks"]]
  /\ pc' = "done"
  /\ UNCHANGED <<req, tokens, mjmlBlocks, mjmlContent, lowered, thrown,
                 consoleLog, steps, mOverride, mTokens, parked,
                 pageVars, proxyVars>>

ValidateAccept ==
  /\ pc = "validate"
  /\ ~MissingRequired(req)
  /\ pc' = "resolve"
  /\ UNCHANGED <<req, tokens, mjmlBlocks, mjmlContent, lowered, thrown, res,
                 consoleLog, steps, mOverride, mTokens, parked,
                 pageVars, proxyVars>>

\* A bug variant: the tokens are kept in a module-level cache that is not
\* keyed by category, so a call reuses what another call resolved.
ResolveTokensShared ==
  /\ pc = "resolve"
  /\ tokens' = IF DOMAIN parked.tokens # {} THEN parked.tokens
                ELSE loadDesignTokens(req.templateType)
  /\ steps' = Append(steps, "resolve")
  /\ pc' = "compile"
  /\ UNCHANGED <<req, mjmlBlocks, mjmlContent, lowered, thrown, res,
                 consoleLog, mOverride, mTokens, parked,
                 pageVars, proxyVars>>

\* const tokens = loadDesignTokens(templateType)
ResolveTokens ==
  /\ pc = "resolve"
  /\ tokens' = loadDesignTokens(req.templateType)
  /\ steps' = Append(steps, "resolve")
  /\ pc' = "compile"
  /\ UNCHANGED <<req, mjmlBlocks, mjmlContent, lowered, thrown, res,
                 consoleLog, mOverride, mTokens, parked,
                 pageVars, proxyVars>>

\* blocks.map(...) raises: blocks is not an array, or a block's compilation
\* throws after the blocks before it were compiled.
CompileBlocksThrow ==
  /\ pc = "compile"
  /\ \/ /\ req.blocks.js # "array"
        /\ thrown' = "TypeError: blocks.map is not a function"
        /\ consoleLog' = consoleLog
     \/ /\ req.blocks.js = "array"
        /\ FirstThrow(req.blocks.elems) > 0
        /\ thrown' = "TypeError: cannot compile block"
        /\ consoleLog' = consoleLog \o
             WarningsOf(SubSeq(req.blocks.elems, 1, FirstThrow(req.blocks.elems) - 1))
  /\ steps' = Append(steps, "compile")
  /\ pc' = "catch"
  /\ UNCHANGED <<req, tokens, mjmlBlocks, mjmlContent, lowered, res,
                 mOverride, mTokens, parked,
                 pageVars, proxyVars>>

\* A bug variant: items.splice(0, 3) in place of items.slice(0, 3) takes
\* the rendered items out of the caller's array.
CompileBlocksSplicing ==
  /\ pc = "compile"
  /\ req.blocks.js = "array"
  /\ FirstThrow(req.blocks.elems) = 0
  /\ mjmlBlocks' = Join(MapBlocks(req.blocks.elems, tokens), "\n")
  /\ req' = [req EXCEPT !.blocks.elems =
               [k \in 1..Len(req.blocks.elems) |->
                  IF req.blocks.elems[k].type = "recommendations"
                       /\ req.blocks.elems[k].items.js = "array"
                  THEN [req.blocks.elems[k] EXCEPT !.items.elems =
                          SubSeq(@, 4, Len(@))]
                  ELSE req.blocks.elems[k]]]
  /\ consoleLog' = consoleLog \o WarningsOf(req.blocks.elems)
  /\ steps' = Append(steps, "compile")
  /\ pc' = "assemble"
  /\ UNCHANGED <<tokens, mjmlContent, lowered, thrown, res,
                 mOverride, mTokens, parked,
                 pageVars, proxyVars>>

\* A bug variant: the fragments are pushed onto a module-level array that
\* is never cleared, so a call's body starts with another call's body.
CompileBlocksAccumulating ==
  /\ pc = "compile"
  /\ req.blocks.js = "array"
  /\ FirstThrow(req.blocks.elems) = 0
  /\ mjmlBlocks' = parked.mjmlBlocks \o Join(MapBlocks(req.blocks.elems, tokens), "\n")
  /\ consoleLog' = consoleLog \o WarningsOf(req.blocks.elems)
  /\ steps' = Append(steps, "compile")
  /\ pc' = "assemble"
  /\ UNCHANGED <<req, tokens, mjmlContent, lowered, thrown, res,
                 mOverride, mTokens, parked,
                 pageVars, proxyVars>>

\* const mjmlBlocks = blocks.map(...).join('\n')
CompileBlocks ==
  /\ pc = "compile"
  /\ req.blocks.js = "array"
  /\ FirstThrow(req.blocks.elems) = 0
  /\ mjmlBlocks' = Join(MapBlocks(req.blocks.elems, tokens), "\n")
  /\ consoleLog' = consoleLog \o WarningsOf(req.blocks.elems)
  /\ steps' = Append(steps, "compile")
  /\ pc' = "assemble"
  /\ UNCHANGED <<req, tokens, mjmlContent, lowered, thrown, res,
                 mOverride, mTokens, parked,
                 pageVars, proxyVars>>

\* return `<mjml>...</mjml>`.trim(), assigned to mjmlContent by the handler
AssembleDocument ==
  /\ pc = "assemble"
  /\ mjmlContent' = Assemble(req.subject, req.preheader, tokens, mjmlBlocks)
  /\ steps' = Append(steps, "assemble")
  /\ pc' = "lower"
  /\ UNCHANGED <<req, tokens, mjmlBlocks, lowered, thrown, res, consoleLog,
                 mOverride, mTokens, parked,
                 pageVars, proxyVars>>

\* const { html, errors } = mjml(mjmlContent, {...}); a non-empty errors
\* list is written to the console.
Lower ==
  /\ pc = "lower"
  /\ \E errors \in ErrorsValues :
       /\ lowered' = [html |-> Html(mjmlContent), errors |-> errors]
       /\ consoleLog' =
            IF ~Falsy(errors) /\ Len(errors.elems) > 0
            THEN Append(consoleLog,
                   [level |-> "warn",
                    args |-> <<"MJML compilation warnings:">> \o errors.elems])
            ELSE consoleLog
  /\ steps' = Append(steps, "lower")
  /\ pc' = "respond"
  /\ UNCHANGED <<req, tokens, mjmlBlocks, mjmlContent, thrown, res,
                 mOverride, mTokens, parked,
                 pageVars, proxyVars>>

\* mjml() cannot produce output and throws.
LowerThrow ==
  /\ pc = "lower"
  /\ thrown' = "Error: mjml failed"
  /\ steps' = Append(steps, "lower")
  /\ pc' = "catch"
  /\ UNCHANGED <<req, tokens, mjmlBlocks, mjmlContent, lowered, res,
                 consoleLog, mOverride, mTokens, parked,
                 pageVars, proxyVars>>

\* A bug variant: the response reports the first issue only.
OkBodyFirstWarning(markup, low) ==
  [mjml |-> markup, html |-> low.html,
   warnings |-> IF Falsy(low.errors) \/ low.errors.elems = << >> THEN << >>
                ELSE <<low.errors.elems[1]>>]

\* A bug variant: the response leaves the warnings out.
OkBodyNoWarnings(markup, low) == [mjml |-> markup, html |-> low.html]

\* { mjml: mjmlContent, html: html, warnings: errors || [] }
OkBody(markup, low) ==
  [mjml |-> markup, html |-> low.html,
   warnings |-> IF Falsy(low.errors) THEN << >> ELSE low.errors.elems]

\* res.json({...})
Respond ==
  /\ pc = "respond"
  /\ res' = [status |-> 200, body |-> OkBody(mjmlContent, lowered)]
  /\ pc' = "done"
  /\ UNCHANGED <<req, tokens, mjmlBlocks, mjmlContent, lowered, thrown,
                 consoleLog, steps, mOverride, mTokens, parked,
                 pageVars, proxyVars>>

\* A bug variant: the error response carries what was produced so far.
ErrorBodyPartial(message, markup) ==
  [error |-> "Failed to render template", message |-> message, mjml |-> markup]

\* { error: 'Failed to render template', message: error.message }
ErrorBody(message, markup) ==
  [error |-> "Failed to render template", message |-> message]

\* A bug variant: a failed lowering is tried once more before giving up.
CatchErrorRetry ==
  /\ pc = "catch"
  /\ IF steps[Len(steps)] = "lower" /\ Len(steps) < 5
     THEN /\ pc' = "lower"
          /\ thrown' = ""
          /\ UNCHANGED <<res, consoleLog>>
     ELSE /\ consoleLog' = Append(consoleLog,
                 [level |-> "error", args |-> <<"Render error:", thrown>>])
          /\ res' = [status |-> 500, body |-> ErrorBody(thrown, mjmlContent)]
          /\ pc' = "done"
          /\ UNCHANGED thrown
  /\ UNCHANGED <<req, tokens, mjmlBlocks, mjmlContent, lowered, steps,
                 mOverride, mTokens, parked,
                 pageVars, proxyVars>>

\* catch (error) { console.error(...); res.status(500).json(...) }
CatchError ==
  /\ pc = "catch"
  /\ consoleLog' = Append(consoleLog,
                     [level |-> "error", args |-> <<"Render error:", thrown>>])
  /\ res' = [status |-> 500, body |-> ErrorBody(thrown, mjmlContent)]
  /\ pc' = "done"
  /\ UNCHANGED <<req, tokens, mjmlBlocks, mjmlContent, lowered, thrown, steps,
                 mOverride, mTokens, parked,
                 pageVars, proxyVars>>

Next ==
  \/ Receive
  \/ ValidateReject
  \/ ValidateAccept
  \/ ResolveTokens
  \/ CompileBlocksThrow
  \/ CompileBlocks
  \/ AssembleDocument
  \/ Lower
  \/ LowerThrow
  \/ Respond
  \/ CatchError
  \/ Return

Spec == Init /\ [][Next]_vars

(* ------------------- generateMJML called on its own --------------------- *)
\* generateMJML(template) is the module's export: a caller other than the
\* handler may pass any template, also one without templateType or blocks.
CallGenerate ==
  /\ pc = "idle"
  /\ \E body \in Bodies : req' = body
  /\ pc' = "resolve"
  /\ UNCHANGED <<tokens, mjmlBlocks, mjmlContent, lowered, thrown, res,
                 consoleLog, steps, mOverride, mTokens, parked,
                 pageVars, proxyVars>>

NextGenerate ==
  \/ CallGenerate
  \/ ResolveTokens
  \/ CompileBlocksThrow
  \/ CompileBlocks
  \/ AssembleDocument

SpecGenerate == Init /\ [][NextGenerate]_vars

(* ------------------------ two calls in flight -------------------------- *)
\* The requests of the two-call specification: three categories and the
\* shapes of blocks that take the handler down each of its paths.
ConcurrentBodies ==
  [templateType : {"cart_abandon", "post_purchase", "newsletter"},
   subject : {"S"}, preheader : {"P"},
   blocks : {NoValue, Arr(<< >>), Arr(<<HeroBlock("H", "Sub", "hero.png")>>),
             Arr(<<FooterBlock("L", "pu", "uu")>>), Arr(<<OtherBlock("banner")>>),
             Arr(<<ItemsBlock("recommendations", "Recs", Arr(SubSeq(Products, 1, 1)))>>),
             Arr(<<NullBlock>>)}]

ReceiveConcurrent ==
  /\ pc = "idle"
  /\ \E body \in ConcurrentBodies : req' = body
  /\ pc' = "validate"
  /\ UNCHANGED <<tokens, mjmlBlocks, mjmlContent, lowered, thrown, res,
                 consoleLog, steps, mOverride, mTokens, parked,
                 pageVars, proxyVars>>

\* The other call in flight gets to run: the locals of the two calls change
\* places.  The handler contains no await, so Node runs each call to its
\* end; letting the calls alternate after every step covers that schedule
\* and every finer one.
Switch ==
  /\ parked' = [pc |-> pc, req |-> req, tokens |-> tokens,
                mjmlBlocks |-> mjmlBlocks, mjmlContent |-> mjmlContent,
                lowered |-> lowered, thrown |-> thrown, res |-> res,
                consoleLog |-> consoleLog, steps |-> steps]
  /\ pc' = parked.pc
  /\ req' = parked.req
  /\ tokens' = parked.tokens
  /\ mjmlBlocks' = parked.mjmlBlocks
  /\ mjmlContent' = parked.mjmlContent
  /\ lowered' = parked.lowered
  /\ thrown' = parked.thrown
  /\ res' = parked.res
  /\ consoleLog' = parked.consoleLog
  /\ steps' = parked.steps
  /\ UNCHANGED <<mOverride, mTokens, pageVars, proxyVars>>

NextConcurrent ==
  \/ ReceiveConcurrent
  \/ ValidateReject
  \/ ValidateAccept
  \/ ResolveTokens
  \/ CompileBlocksThrow
  \/ CompileBlocks
  \/ AssembleDocument
  \/ Lower
  \/ LowerThrow
  \/ Respond
  \/ CatchError
  \/ Return
  \/ Switch

SpecConcurrent == Init /\ [][NextConcurrent]_vars

(* ------------------- the merge statement on its own -------------------- *)
OverrideValue == "#override"

RECURSIVE SubsetsUpTo(_, _)
SubsetsUpTo(S, n) ==
  IF n = 0 THEN {{}}
  ELSE LET smaller == SubsetsUpTo(S, n - 1)
       IN  smaller \cup {P \cup {x} : P \in smaller, x \in S}

RECURSIVE FromPaths(_)
\* The object that names exactly the given leaf paths.
FromPaths(P) ==
  [k \in {Head(p) : p \in P} |->
     LET rest == {Tail(p) : p \in {q \in P : Head(q) = k}}
     IN  IF << >> \in rest THEN OverrideValue ELSE FromPaths(rest)]

\* Category override objects: the three of the source and every object that
\* names at most MaxOverrideLeaves leaves.
OverrideValues ==
  {templateOverrides[c] : c \in KnownCategories}
    \cup {FromPaths(P) : P \in SubsetsUpTo(LeafPaths, MaxOverrideLeaves)}

InitMerge ==
  /\ pc = "idle"
  /\ req = NoBody
  /\ tokens = NoTokens
  /\ mjmlBlocks = NoMarkup
  /\ mjmlContent = NoMarkup
  /\ lowered = NoLowered
  /\ thrown = ""
  /\ res = NoResponse
  /\ consoleLog = << >>
  /\ steps = << >>
  /\ mOverride \in OverrideValues
  /\ mTokens = EmptyObject
  /\ parked = IdleCall
  /\ InitPage
  /\ InitProxy

\* The return statement of loadDesignTokens applied to the override.
MergeApply ==
  /\ DOMAIN mTokens = {}
  /\ mTokens' = MergeOverride(defaultTokens, mOverride)
  /\ UNCHANGED <<renderVars, mOverride, parked,
                 pageVars, proxyVars>>

NextMerge == MergeApply

SpecMerge == InitMerge /\ [][NextMerge]_vars

(* ---------------------------- POST /compile ---------------------------- *)
\* The mjml field of the body: absent, null, or a string of markup pieces
\* (the empty string has no pieces).
Content(js, text) == [js |-> js, text |-> text]

\* Documents a client may send for direct compilation: those generateMJML
\* produces for the bodies above, and one that is not MJML at all.
CompileDocuments ==
  {Assemble(b.subject, b.preheader, loadDesignTokens(b.templateType),
            Join(MapBlocks(b.blocks.elems, loadDesignTokens(b.templateType)), "\n")) :
     b \in {c \in ConcurrentBodies :
              c.blocks.js = "array" /\ FirstThrow(c.blocks.elems) = 0}}
    \cup {<<"<html>", "</html>">>}

CompileBodies ==
  [mjml : {Content("undefined", << >>), Content("null", << >>),
           Content("string", << >>)}
            \cup {Content("string", d) : d \in CompileDocuments}]

ReceiveCompile ==
  /\ pc = "idle"
  /\ \E body \in CompileBodies : req' = body
  /\ pc' = "compile_validate"
  /\ UNCHANGED <<tokens, mjmlBlocks, mjmlContent, lowered, thrown, res,
                 consoleLog, steps, mOverride, mTokens, parked,
                 pageVars, proxyVars>>

\* A bug variant: only an absent field counts as missing.
MissingContentAbsent(body) == body.mjml.js \in {"undefined", "null"}

\* !mjmlContent
MissingContent(body) ==
  body.mjml.js \in {"undefined", "null"} \/ body.mjml.text = << >>

\* if (!mjmlContent) return res.status(400).json(...)
CompileReject ==
  /\ pc = "compile_validate"
  /\ MissingContent(req)
  /\ res' = [status |-> 400, body |-> [error |-> "Missing MJML content"]]
  /\ pc' = "done"
  /\ UNCHANGED <<req, tokens, mjmlBlocks, mjmlContent, lowered, thrown,
                 consoleLog, steps, mOverride, mTokens, parked,
                 pageVars, proxyVars>>

\* const { html, errors } = mjml(mjmlContent, { validationLevel: 'soft' })
CompileLower ==
  /\ pc = "compile_validate"
  /\ ~MissingContent(req)
  /\ mjmlContent' = req.mjml.text
  /\ \E errors \in ErrorsValues :
       lowered' = [html |-> Html(req.mjml.text), errors |-> errors]
  /\ steps' = Append(steps, "lower")
  /\ pc' = "compile_respond"
  /\ UNCHANGED <<req, tokens, mjmlBlocks, thrown, res, consoleLog,
                 mOverride, mTokens, parked,
                 pageVars, proxyVars>>

\* mjml() throws.
CompileLowerThrow ==
  /\ pc = "compile_validate"
  /\ ~MissingContent(req)
  /\ mjmlContent' = req.mjml.text
  /\ thrown' = "Error: mjml failed"
  /\ steps' = Append(steps, "lower")
  /\ pc' = "compile_catch"
  /\ UNCHANGED <<req, tokens, mjmlBlocks, lowered, res, consoleLog,
                 mOverride, mTokens, parked,
                 pageVars, proxyVars>>

\* { html: html, warnings: errors || [] }
CompileOkBody(low) ==
  [html |-> low.html,
   warnings |-> IF Falsy(low.errors) THEN << >> ELSE low.errors.elems]

\* res.json({...})
CompileRespond ==
  /\ pc = "compile_respond"
  /\ res' = [status |-> 200, body |-> CompileOkBody(lowered)]
  /\ pc' = "done"
  /\ UNCHANGED <<req, tokens, mjmlBlocks, mjmlContent, lowered, thrown,
                 consoleLog, steps, mOverride, mTokens, parked,
                 pageVars, proxyVars>>

\* catch (error) { console.error(...); res.status(500).json(...) }
CompileCatch ==
  /\ pc = "compile_catch"
  /\ consoleLog' = Append(consoleLog,
                     [level |-> "error", args |-> <<"Compilation error:", thrown>>])
  /\ res' = [status |-> 500,
             body |-> [error |-> "Failed to compile MJML", message |-> thrown]]
  /\ pc' = "done"
  /\ UNCHANGED <<req, tokens, mjmlBlocks, mjmlContent, lowered, thrown, steps,
                 mOverride, mTokens, parked,
                 pageVars, proxyVars>>

NextCompile ==
  \/ ReceiveCompile
  \/ CompileReject
  \/ CompileLower
  \/ CompileLowerThrow
  \/ CompileRespond
  \/ CompileCatch
  \/ Return

SpecCompile == Init /\ [][NextCompile]_vars

(* ------------------- the page and its progress loader ------------------ *)
agents ==
  <<"supervisor", "retriever", "asset_curator", "copywriter", "template_layout",
    "render">>

\* agents.findIndex(a => a.id === id): zero-based, -1 when there is none.
findIndex(id) ==
  IF \E i \in 1..Len(agents) : agents[i] = id
  THEN (CHOOSE i \in 1..Len(agents) : agents[i] = id) - 1
  ELSE 0 - 1

\* for (let i = 0; i < agentIndex; i++) completed.add(agents[i].id)
CompletedUpTo(agentIndex) == {agents[i + 1] : i \in 0..(agentIndex - 1)}

\* What the orchestrator sends as data.result, and a result event without it.
GoodResult ==
  [js |-> "object",
   template_json |-> [locale |-> "it-IT", templateType |-> "cart_abandon",
                      subject |-> "S", preheader |-> "P", blocks |-> << >>],
   mjml |-> <<"<mjml>", "</mjml>">>, html |-> Html(<<"<mjml>", "</mjml>">>),
   tokens_version |-> "1.0.0"]
MissingResult == [js |-> "undefined"]

\* The JSON objects of the data lines of the stream.
Event(step, agent, message, progressValue, resultValue) ==
  [step |-> step, agent |-> agent, message |-> message,
   progress |-> progressValue, result |-> resultValue]

ProgressEvents ==
  {Event("progress", a, "working", p, MissingResult) :
     a \in {"supervisor", "copywriter", "render", "qa"}, p \in {0, 40}}
ResultEvents == {Event("result", Undefined, Undefined, 100, r) : r \in {GoodResult, MissingResult}}
ErrorEvents == {Event("error", Undefined, "boom", 0, MissingResult)}

\* A chunk read from the stream: one data line that parses to an event, or
\* text that JSON.parse rejects (a partial event, or several events in one
\* chunk, which the split on the two-character sequence backslash-n does
\* not separate).
ChunkValues ==
  {[parsed |-> TRUE, data |-> e] : e \in ProgressEvents \cup ResultEvents \cup ErrorEvents}
    \cup {[parsed |-> FALSE, data |-> Event(Undefined, Undefined, Undefined, 0, MissingResult)]}

loaderVars == <<currentStep, progress, activeAgent, completedAgents>>
homeVars == <<isGenerating, showMultiAgentLoader, result, generationError>>
\* What no step of the page or of a stream touches.
serviceVars == <<renderVars, mOverride, mTokens, parked, proxyVars>>

\* handleGenerate of the page.
handleGenerate ==
  /\ isGenerating' = TRUE
  /\ showMultiAgentLoader' = TRUE
  /\ generationError' = Null
  /\ result' = NoResult

\* handleGenerationComplete(result); reading template_json of a missing
\* result raises a TypeError before any state is set.
handleGenerationComplete(r) ==
  IF r.js # "object"
  THEN UNCHANGED homeVars
  ELSE /\ result' = [js |-> "object",
                     jsonTemplate |-> r.template_json,
                     mjml |-> r.mjml, html |-> r.html,
                     tokensVersion |-> r.tokens_version]
       /\ showMultiAgentLoader' = FALSE
       /\ isGenerating' = FALSE
       /\ UNCHANGED generationError

\* A bug variant: the error handler hides the loader and leaves the button
\* disabled.
handleGenerationErrorBusy(error) ==
  /\ generationError' = error
  /\ showMultiAgentLoader' = FALSE
  /\ UNCHANGED <<isGenerating, result>>

\* handleGenerationError(error)
handleGenerationError(error) ==
  /\ generationError' = error
  /\ showMultiAgentLoader' = FALSE
  /\ isGenerating' = FALSE
  /\ UNCHANGED result

\* The effect of the loader when the page has rendered again with the
\* loader hidden: the loader's state is reset.  (eventSource is never set,
\* so there is nothing to close.)
LoaderEffectHidden ==
  IF homeVars' # homeVars
  THEN /\ currentStep' = NoStep
       /\ progress' = 0
       /\ activeAgent' = "supervisor"
       /\ completedAgents' = {}
  ELSE UNCHANGED loaderVars

\* onError?.(message) called by the code of stream s.
OnError(s, message) ==
  /\ handleGenerationError(message)
  /\ LoaderEffectHidden
  /\ lastCall' = [stream |-> s, kind |-> "error", generation |-> generation,
                  visible |-> showMultiAgentLoader]

\* onComplete?.(data.result) called by the timer of stream s.
OnComplete(s, r) ==
  /\ handleGenerationComplete(r)
  /\ LoaderEffectHidden
  /\ lastCall' = [stream |-> s, kind |-> "complete", generation |-> generation,
                  visible |-> showMultiAgentLoader]

\* The user presses Generate (the button is disabled while isGenerating);
\* the loader becomes visible and its effect calls startStream.
HandleGenerate ==
  /\ ~isGenerating
  /\ generation < MaxGenerations
  /\ handleGenerate
  /\ generation' = generation + 1
  /\ streams' = [streams EXCEPT ![generation + 1] = [state |-> "fetching", chunks |-> 0]]
  /\ UNCHANGED <<loaderVars, timers, lastCall, serviceVars>>

\* startStream: fetch resolves with an ok response that has a body.
StartOk(s) ==
  /\ streams[s].state = "fetching"
  /\ streams' = [streams EXCEPT ![s].state = "reading"]
  /\ UNCHANGED <<homeVars, loaderVars, timers, generation, lastCall, serviceVars>>

\* startStream: fetch rejects, the response is not ok, or it has no reader.
StartFail(s) ==
  /\ streams[s].state = "fetching"
  /\ streams' = [streams EXCEPT ![s].state = "closed"]
  /\ OnError(s, "Impossibile avviare la generazione")
  /\ UNCHANGED <<timers, generation, serviceVars>>

\* if (data.progress > 0) { ...; setCompletedAgents(completed) }
MarkCompleted(data, completed) ==
  IF data.progress > 0 THEN CompletedUpTo(findIndex(data.agent)) ELSE completed

\* The chunks read so far from all streams.
ChunksRead ==
  LET sum[s \in 0..MaxGenerations] ==
        IF s = 0 THEN 0 ELSE sum[s - 1] + streams[s].chunks
  IN  sum[MaxGenerations]

\* processStream: reader.read() resolves with a chunk, and the loop body
\* handles its data line.
ReadChunk(s) ==
  /\ streams[s].state = "reading"
  /\ ChunksRead < MaxChunks
  /\ streams' = [streams EXCEPT ![s].chunks = @ + 1]
  /\ \E chunk \in ChunkValues :
       LET data == chunk.data
       IN  IF ~chunk.parsed
           THEN UNCHANGED <<homeVars, loaderVars, timers, lastCall>>
           ELSE IF data.step = "result"
           THEN /\ progress' = 100
                /\ timers' = Append(timers, [stream |-> s, result |-> data.result])
                /\ UNCHANGED <<homeVars, currentStep, activeAgent,
                               completedAgents, lastCall>>
           ELSE IF data.step = "error"
           THEN /\ OnError(s, data.message)
                /\ UNCHANGED timers
           ELSE /\ currentStep' = data
                /\ progress' = data.progress
                /\ activeAgent' = data.agent
                /\ completedAgents' = MarkCompleted(data, completedAgents)
                /\ UNCHANGED <<homeVars, timers, lastCall>>
  /\ UNCHANGED <<generation, serviceVars>>

\* processStream: reader.read() resolves with done.
ReadDone(s) ==
  /\ streams[s].state = "reading"
  /\ streams' = [streams EXCEPT ![s].state = "closed"]
  /\ UNCHANGED <<homeVars, loaderVars, timers, generation, lastCall, serviceVars>>

\* processStream: reader.read() rejects.
ReadError(s) ==
  /\ streams[s].state = "reading"
  /\ streams' = [streams EXCEPT ![s].state = "closed"]
  /\ OnError(s, "Errore durante la comunicazione con il server")
  /\ UNCHANGED <<timers, generation, serviceVars>>

\* The 500 ms timer set by a result event fires.
TimerFire ==
  /\ timers # << >>
  /\ OnComplete(Head(timers).stream, Head(timers).result)
  /\ timers' = Tail(timers)
  /\ UNCHANGED <<streams, generation, serviceVars>>

NextPage ==
  \/ HandleGenerate
  \/ \E s \in 1..MaxGenerations : StartOk(s)
  \/ \E s \in 1..MaxGenerations : StartFail(s)
  \/ \E s \in 1..MaxGenerations : ReadChunk(s)
  \/ \E s \in 1..MaxGenerations : ReadDone(s)
  \/ \E s \in 1..MaxGenerations : ReadError(s)
  \/ TimerFire

SpecPage == Init /\ [][NextPage]_vars

(* ----------------- the proxy routes of the front end ------------------- *)
Routes == {"generate", "upload-template"}

\* response.ok: a status in the range 200-299.
Ok(status) == 200 <= status /\ status <= 299

UpstreamStatuses == {200, 201, 400, 404, 422, 500, 503}

StatusText(status) ==
  CASE status = 200 -> "OK"
    [] status = 201 -> "Created"
    [] status = 400 -> "Bad Request"
    [] status = 404 -> "Not Found"
    [] status = 422 -> "Unprocessable Entity"
    [] status = 500 -> "Internal Server Error"
    [] OTHER -> "Service Unavailable"

\* Bodies of the orchestrator: the answer of a route, an error detail, and
\* one that is not JSON.
UpstreamJson ==
  {[html |-> "<html>", mjml |-> "<mjml>", tokensVersion |-> "1.0.0"],
   [fileId |-> "f1", filename |-> "brand.html"],
   [detail |-> "upstream failure"]}

UpstreamResponses ==
  {[status |-> st, statusText |-> StatusText(st), parsable |-> TRUE, json |-> j] :
     st \in UpstreamStatuses, j \in UpstreamJson}
    \cup {[status |-> st, statusText |-> StatusText(st), parsable |-> FALSE,
           json |-> EmptyObject] : st \in UpstreamStatuses}

pageAndService == <<renderVars, mOverride, mTokens, parked, pageVars>>

\* A request reaches POST of a route and its body is read.
ProxyReceive(r) ==
  /\ proxyPc = "idle"
  /\ route' = r
  /\ proxyPc' = "fetch"
  /\ UNCHANGED <<upstream, proxyThrown, proxyRes, proxyLog, pageAndService>>

\* await request.json() / request.formData() rejects.
ProxyReceiveThrow(r) ==
  /\ proxyPc = "idle"
  /\ route' = r
  /\ proxyThrown' = IF r = "generate" THEN "SyntaxError: Unexpected token"
                    ELSE "TypeError: Failed to parse body as FormData"
  /\ proxyPc' = "catch"
  /\ UNCHANGED <<upstream, proxyRes, proxyLog, pageAndService>>

\* await fetch(`${ORCHESTRATOR_URL}/...`) resolves.
ProxyFetch ==
  /\ proxyPc = "fetch"
  /\ \E up \in UpstreamResponses : upstream' = up
  /\ proxyPc' = "check"
  /\ UNCHANGED <<route, proxyThrown, proxyRes, proxyLog, pageAndService>>

\* await fetch(...) rejects: the orchestrator cannot be reached.
ProxyFetchThrow ==
  /\ proxyPc = "fetch"
  /\ proxyThrown' = "TypeError: fetch failed"
  /\ proxyPc' = "catch"
  /\ UNCHANGED <<route, upstream, proxyRes, proxyLog, pageAndService>>

\* !response.ok
NotOk(status) == ~Ok(status)

\* if (!response.ok) throw new Error(...)
ProxyCheck ==
  /\ proxyPc = "check"
  /\ IF NotOk(upstream.status)
     THEN /\ proxyThrown' =
               IF route = "generate"
               THEN <<"Orchestrator error: ", upstream.status>>
               ELSE <<"Upload failed: ", upstream.statusText>>
          /\ proxyPc' = "catch"
     ELSE /\ proxyPc' = "read"
          /\ UNCHANGED proxyThrown
  /\ UNCHANGED <<route, upstream, proxyRes, proxyLog, pageAndService>>

\* const data = await response.json(); return NextResponse.json(data)
ProxyRead ==
  /\ proxyPc = "read"
  /\ IF upstream.parsable
     THEN /\ proxyRes' = [status |-> 200, body |-> upstream.json]
          /\ proxyPc' = "done"
          /\ UNCHANGED proxyThrown
     ELSE /\ proxyThrown' = "SyntaxError: Unexpected token"
          /\ proxyPc' = "catch"
          /\ UNCHANGED proxyRes
  /\ UNCHANGED <<route, upstream, proxyLog, pageAndService>>

\* The error object of each route.
FixedError(r) ==
  IF r = "generate" THEN [error |-> "Failed to generate email"]
  ELSE [error |-> "Failed to upload template"]

\* A bug variant: the failure is passed on with the upstream status and
\* body when there is one.
ErrorResponseForwarding(r, up) ==
  IF up.status # 0 /\ up.parsable THEN [status |-> up.status, body |-> up.json]
  ELSE [status |-> 500, body |-> FixedError(r)]

\* NextResponse.json({ error: '...' }, { status: 500 })
ErrorResponse(r, up) == [status |-> 500, body |-> FixedError(r)]

\* catch (error) { console.error(...); return NextResponse.json(...) }
ProxyCatch ==
  /\ proxyPc = "catch"
  /\ proxyLog' = Append(proxyLog,
                   <<IF route = "generate" THEN "API route error:"
                     ELSE "Template upload error:", proxyThrown>>)
  /\ proxyRes' = ErrorResponse(route, upstream)
  /\ proxyPc' = "done"
  /\ UNCHANGED <<route, upstream, proxyThrown, pageAndService>>

\* POST has returned its response.
ProxyReturn ==
  /\ proxyPc = "done"
  /\ route' = "none"
  /\ proxyPc' = "idle"
  /\ upstream' = NoUpstream
  /\ proxyThrown' = ""
  /\ proxyRes' = NoResponse
  /\ proxyLog' = << >>
  /\ UNCHANGED pageAndService

NextProxy ==
  \/ \E r \in Routes : ProxyReceive(r)
  \/ \E r \in Routes : ProxyReceiveThrow(r)
  \/ ProxyFetch
  \/ ProxyFetchThrow
  \/ ProxyCheck
  \/ ProxyRead
  \/ ProxyCatch
  \/ ProxyReturn

SpecProxy == Init /\ [][NextProxy]_vars

(* ------------------------------ claims --------------------------------- *)
Resolved == DOMAIN tokens # {}
Merged == DOMAIN mTokens # {}

C2_KnownCategoryTokens ==
  (Resolved /\ req.templateType \in KnownCategories) =>
    /\ req.templateType = "cart_abandon" => tokens.colors.primary = "#dc2626"
    /\ req.templateType = "post_purchase" => tokens.colors.primary = "#059669"
    /\ req.templateType = "order_confirmation" => tokens.colors.primary = "#2563eb"
    /\ \A p \in LeafPaths \ {<<"colors", "primary">>} :
         GetPath(tokens, p) = GetPath(defaultTokens, p)

C2_Witness ==
  /\ pc = "done"
  /\ res.status = 200
  /\ req.templateType = "cart_abandon"
  /\ GetPath(tokens, <<"colors", "primary">>) = "#dc2626"

\* C3: for a category outside the known three (also an absent one) the
\* resolved set equals the base defaults at every leaf and resolution does
\* not throw.
C3_UnknownCategoryBase ==
  (req.templateType \notin KnownCategories /\ steps # << >>) =>
    /\ Resolved
    /\ \A p \in LeafPaths : GetPath(tokens, p) = GetPath(defaultTokens, p)
    /\ Len(steps) = 1 => (thrown = "" /\ pc = "compile")

C3_Witness ==
  /\ req.templateType = Undefined
  /\ pc = "lower"
  /\ GetPath(tokens, <<"colors", "primary">>) = "#2563eb"

\* C4: the token set handed to the compilers and the assembler has a
\* concrete value at every leaf, whatever the category.
C4_FullyPopulated ==
  (pc \in {"compile", "assemble", "lower", "catch"}) =>
    /\ Resolved
    /\ \A p \in LeafPaths : Truthy(GetPath(tokens, p))

C4_Witness ==
  /\ pc = "assemble"
  /\ req.templateType = "post_purchase"
  /\ Len(req.blocks.elems) = MaxBlocks
  /\ Cardinality({p \in LeafPaths : Truthy(GetPath(tokens, p))}) = 23

(* Helpers of the claims about the response and the markup. *)
Blocks == req.blocks.elems
Succeeded == pc = "done" /\ res.status = 200
Unknown(block) == block.js = "object" /\ block.type \notin KnownTypes

\* The fragment of each block as the compiler of its type produces it.
Fragments == [k \in 1..Len(Blocks) |-> compileBlock(Blocks[k], tokens)]

\* Where the fragment of block k starts in the joined body: after the
\* fragments before it and one separator each.
Offsets ==
  LET off[k \in 1..Len(Blocks)] ==
        IF k = 1 THEN 0 ELSE off[k - 1] + Len(Fragments[k - 1]) + 1
  IN  off

\* Index of the first occurrence of a piece in a markup, 0 when absent.
FirstIndex(markup, piece) ==
  LET at == {i \in 1..Len(markup) : markup[i] = piece}
  IN  IF at = {} THEN 0 ELSE CHOOSE i \in at : \A j \in at : i <= j

\* The text a block of a known type shows: headline, title or legal.
TextOf(block) ==
  CASE block.type = "hero" -> Str(block.headline)
    [] block.type = "footer" -> Str(block.legal)
    [] OTHER -> Str(block.title)

\* Block k is the only block of the document that shows its text.
OwnText(k) == \A m \in 1..Len(Blocks) : m # k => TextOf(Blocks[m]) # TextOf(Blocks[k])

\* C5: a render with a block of unknown type succeeds with exactly one
\* warning in the result naming the tag, and the block adds no fragment.
C5_UnknownTagWarned ==
  Succeeded =>
    \A k \in 1..Len(Blocks) :
      Unknown(Blocks[k]) =>
        /\ Fragments[k] = << >>
        /\ Cardinality({i \in 1..Len(res.body.warnings) :
             res.body.warnings[i] = "Unknown block type: " \o Str(Blocks[k].type)}) = 1

\* C6: the body of the intermediate markup holds the fragments in document
\* order: after the head and the opening of mj-body, the fragment of
\* block k lies at the offset the fragments before it leave, and the
\* text of an earlier block comes before the text of a later one (for
\* blocks whose text no other block of the document shows).
C6_DocumentOrder ==
  (pc = "lower") =>
    LET frags == Fragments
        offs == Offsets
        body == mjmlContent
        base == FirstIndex(body, "</mj-head>") + 3
    IN  /\ \A k \in 1..Len(Blocks) :
             SubSeq(body, base + offs[k] + 1, base + offs[k] + Len(frags[k])) = frags[k]
        /\ \A i, j \in 1..Len(Blocks) :
             (/\ i < j
              /\ frags[i] # << >>
              /\ frags[j] # << >>
              /\ OwnText(i)
              /\ OwnText(j))
             => /\ FirstIndex(body, TextOf(Blocks[i])) > 0
                /\ FirstIndex(body, TextOf(Blocks[i]))
                     < FirstIndex(body, TextOf(Blocks[j]))

C6_Witness ==
  /\ pc = "lower"
  /\ Len(Blocks) = 2
  /\ Blocks[1].type = "footer"
  /\ Blocks[2].type = "hero"
  /\ FirstIndex(mjmlContent, "L") > 0
  /\ FirstIndex(mjmlContent, "L") < FirstIndex(mjmlContent, "H")

\* C7 as claimed: a successful result carries the intermediate markup, the
\* final markup, the warnings and tokensVersion.
C7_FourFields ==
  Succeeded =>
    {"mjml", "html", "warnings", "tokensVersion"} \subseteq DOMAIN res.body

\* C7 amended: a successful result carries exactly the intermediate markup,
\* the final markup and the ordered warnings list, and no tokensVersion.
C7_ThreeFields ==
  Succeeded =>
    /\ DOMAIN res.body = {"mjml", "html", "warnings"}
    /\ res.body.mjml = mjmlContent
    /\ res.body.html = lowered.html
    /\ res.body.warnings =
         (IF lowered.errors.js = "array" THEN lowered.errors.elems ELSE << >>)

C7_Witness ==
  /\ Succeeded
  /\ Len(res.body.warnings) = MaxIssues
  /\ Len(res.body.mjml) > 0
  /\ Len(res.body.html) > Len(res.body.mjml)

\* C8: a render of a document whose category and blocks are present fails
\* only if the lowering step itself fails.
C8_OnlyLoweringFails ==
  (pc = "done" /\ ~MissingRequired(req) /\ res.status # 200) =>
    (steps # << >> /\ steps[Len(steps)] = "lower")

\* C9: a request without templateType or without blocks is answered 400
\* before the pipeline: no step of it runs.
C9_RejectedBeforePipeline ==
  (pc \notin {"idle", "validate"}
     /\ (req.templateType = Undefined \/ req.blocks.js = "undefined")) =>
    /\ pc = "done"
    /\ res.status = 400
    /\ DOMAIN res.body = {"error"}
    /\ steps = << >>
    /\ ~Resolved
    /\ mjmlBlocks = NoMarkup
    /\ mjmlContent = NoMarkup
    /\ lowered = NoLowered

C9_Witness ==
  /\ pc = "done"
  /\ res.status = 400
  /\ req.templateType = "cart_abandon"
  /\ req.blocks.js = "undefined"
  /\ steps = << >>

\* C10: when lowering throws, the response is an error that carries no
\* intermediate markup, no final markup and no warnings.
C10_NoPartialResult ==
  (pc = "done" /\ steps # << >> /\ steps[Len(steps)] = "lower" /\ thrown # "") =>
    /\ res.status = 500
    /\ DOMAIN res.body = {"error", "message"}
    /\ res.body.message = thrown
    /\ lowered = NoLowered

C10_Witness ==
  /\ pc = "done"
  /\ thrown = "Error: mjml failed"
  /\ res.status = 500
  /\ Len(mjmlContent) > 0
  /\ Len(Blocks) = MaxBlocks

(* Helpers of the claims about single fragments. *)
\* Where the body starts in the intermediate markup: after </mj-head> and
\* the three pieces of the opening mj-body tag.
BodyBase == FirstIndex(mjmlContent, "</mj-head>") + 3

\* The part of the intermediate markup that is the fragment of block k.
StateFragment(k) ==
  SubSeq(mjmlContent, BodyBase + Offsets[k] + 1,
         BodyBase + Offsets[k] + Len(Fragments[k]))

\* How often a piece occurs in a markup.
Count(markup, piece) == Cardinality({i \in 1..Len(markup) : markup[i] = piece})

Pieces(markup) == {markup[i] : i \in 1..Len(markup)}

Min(a, b) == IF a < b THEN a ELSE b

IsPrice(piece) == \E i \in 1..Len(Products) : piece = Products[i].price

ColumnOpen == "<mj-column width=33.33% padding="

\* Block k is a list block of the given type with an array of n items.
ListBlock(k, type) ==
  Blocks[k].js = "object" /\ Blocks[k].type = type /\ Blocks[k].items.js = "array"

\* C11: when lowering returns output, the render succeeds and its warnings
\* are exactly the issues lowering reported, in the reported order (none
\* when it reported none); issues never turn the render into a failure.
C11_SoftIssuesBecomeWarnings ==
  (pc = "done" /\ steps # << >> /\ steps[Len(steps)] = "lower" /\ thrown = "") =>
    /\ res.status = 200
    /\ lowered.errors.js = "array" => res.body.warnings = lowered.errors.elems
    /\ lowered.errors.js # "array" => res.body.warnings = << >>
    /\ res.body.html = Html(mjmlContent)

C11_Witness ==
  /\ pc = "done"
  /\ res.status = 200
  /\ lowered.errors.js = "array"
  /\ Len(lowered.errors.elems) = MaxIssues
  /\ res.body.warnings = SubSeq(Issues, 1, MaxIssues)

\* C12: an Items or Recommendations block with an empty item sequence
\* compiles to the empty string: no title section, no item section.
C12_EmptyListEmptyFragment ==
  (pc = "lower") =>
    \A k \in 1..Len(Blocks) :
      ((ListBlock(k, "items") \/ ListBlock(k, "recommendations"))
         /\ Len(Blocks[k].items.elems) = 0) =>
        /\ Fragments[k] = << >>
        /\ Len(Blocks) = 1 => mjmlBlocks = << >>
        /\ OwnText(k) => Str(Blocks[k].title) \notin Pieces(mjmlContent)

C12_Witness ==
  /\ pc = "lower"
  /\ Len(Blocks) = 2
  /\ ListBlock(1, "items")
  /\ ListBlock(2, "recommendations")
  /\ Blocks[1].items.elems = << >>
  /\ Blocks[2].items.elems = << >>
  /\ mjmlBlocks = <<"\n">>

\* C13: a Recommendations block with n >= 1 items renders min(n, 3) item
\* columns, those of the first min(n, 3) items in the supplied order; an
\* item at index 3 or beyond does not appear.
C13_RecommendationsCap ==
  (pc = "lower") =>
    \A k \in 1..Len(Blocks) :
      (ListBlock(k, "recommendations") /\ Len(Blocks[k].items.elems) >= 1) =>
        LET items == Blocks[k].items.elems
            shown == Min(Len(items), 3)
            frag == StateFragment(k)
        IN  /\ Count(frag, ColumnOpen) = shown
            /\ SelectSeq(frag, IsPrice) = [i \in 1..shown |-> items[i].price]
            /\ \A i \in 1..Len(items) :
                 i > 3 => {items[i].name, items[i].price, items[i].imageUrl,
                           items[i].url} \cap Pieces(frag) = {}

C13_Witness ==
  /\ pc = "lower"
  /\ Len(Blocks) = 1
  /\ ListBlock(1, "recommendations")
  /\ Len(Blocks[1].items.elems) = MaxItems
  /\ Count(mjmlContent, ColumnOpen) = 3

\* C14: a Hero fragment has the image element exactly when imageUrl is
\* present and non-empty, the subcopy text element exactly when subcopy
\* is present and non-empty (no empty container otherwise), and always
\* the headline text element.
C14_HeroOptionalFields ==
  (pc = "lower") =>
    \A k \in 1..Len(Blocks) :
      (Blocks[k].js = "object" /\ Blocks[k].type = "hero") =>
        LET frag == StateFragment(k)
            hasImage == Blocks[k].imageUrl \notin {Undefined, Null, ""}
            hasSubcopy == Blocks[k].subcopy \notin {Undefined, Null, ""}
        IN  /\ Count(frag, "<mj-image src=") = (IF hasImage THEN 1 ELSE 0)
            /\ Count(frag, "<mj-text align=center font-size=")
                 = 1 + (IF hasSubcopy THEN 1 ELSE 0)
            /\ Count(frag, "</mj-text>") = 1 + (IF hasSubcopy THEN 1 ELSE 0)
            /\ \E i \in 1..(Len(frag) - 1) :
                 frag[i] = Blocks[k].headline /\ frag[i + 1] = "</mj-text>"
            /\ hasSubcopy <=> Blocks[k].subcopy \in Pieces(frag)
            /\ {"", "undefined", "null"} \cap Pieces(frag) = {}

C14_Witness ==
  /\ pc = "lower"
  /\ Len(Blocks) = 2
  /\ Blocks[1].type = "hero" /\ Blocks[1].imageUrl = "" /\ Blocks[1].subcopy = "Sub"
  /\ Blocks[2].type = "hero" /\ Blocks[2].imageUrl = "hero.png"
  /\ Blocks[2].subcopy = Undefined
  /\ Count(mjmlContent, "<mj-image src=") = 1

\* C15: asset strings reach the fragment of their block unchanged: a
\* Hero's imageUrl and customHtml when supplied, the imageUrl and url of
\* each rendered product, a Footer's preferencesUrl and unsubscribeUrl.
C15_AssetsVerbatim ==
  (pc = "lower") =>
    \A k \in 1..Len(Blocks) :
      LET block == Blocks[k]
          frag == StateFragment(k)
      IN  /\ (block.js = "object" /\ block.type = "hero") =>
                /\ block.imageUrl \notin {Undefined, ""} => block.imageUrl \in Pieces(frag)
                /\ block.customHtml # Undefined => block.customHtml \in Pieces(frag)
          /\ (ListBlock(k, "items") \/ ListBlock(k, "recommendations")) =>
                \A i \in 1..Len(block.items.elems) :
                  (block.type = "items" \/ i <= 3) =>
                    {block.items.elems[i].imageUrl, block.items.elems[i].url}
                      \subseteq Pieces(frag)
          /\ (block.js = "object" /\ block.type = "footer") =>
                {block.preferencesUrl, block.unsubscribeUrl} \subseteq Pieces(frag)

PipelineOrder == <<"resolve", "compile", "assemble", "lower">>

\* C16: the steps a call has run are always a beginning of Resolve,
\* Compile, Assemble, Lower: in that order, each at most once, lowering
\* only after the document was assembled and never a second time.
C16_LinearPipeline ==
  /\ Len(steps) <= Len(PipelineOrder)
  /\ steps = SubSeq(PipelineOrder, 1, Len(steps))
  /\ (Len(steps) = 4) => mjmlContent # NoMarkup
  /\ (Len(steps) < 3) => mjmlContent = NoMarkup
  /\ (Len(steps) < 4) => lowered = NoLowered

C16_Witness ==
  /\ pc = "done"
  /\ steps = PipelineOrder
  /\ thrown = "Error: mjml failed"
  /\ res.status = 500

\* The response a call gives when it is the only call ever made, as a
\* function of its request and of what lowering did for it.
AloneResult(body, low, err) ==
  LET t == loadDesignTokens(body.templateType)
      markup == Assemble(body.subject, body.preheader, t,
                         Join(MapBlocks(body.blocks.elems, t), "\n"))
  IN  IF MissingRequired(body)
      THEN [status |-> 400,
            body |-> [error |-> "Missing required fields: templateType, blocks"]]
      ELSE IF body.blocks.js # "array"
      THEN [status |-> 500,
            body |-> ErrorBody("TypeError: blocks.map is not a function", NoMarkup)]
      ELSE IF FirstThrow(body.blocks.elems) > 0
      THEN [status |-> 500,
            body |-> ErrorBody("TypeError: cannot compile block", NoMarkup)]
      ELSE IF err # ""
      THEN [status |-> 500, body |-> ErrorBody(err, markup)]
      ELSE [status |-> 200,
            body |-> OkBody(markup, [html |-> Html(markup), errors |-> low.errors])]

\* C17: with two calls in flight, interleaved in any way and each preceded
\* by any earlier calls, the response of a call is the one it gives alone.
C17_CallsIndependent ==
  /\ pc = "done" => res = AloneResult(req, lowered, thrown)
  /\ parked.pc = "done" =>
       parked.res = AloneResult(parked.req, parked.lowered, parked.thrown)

C17_Witness ==
  /\ pc = "done"
  /\ parked.pc = "done"
  /\ res.status = 200
  /\ parked.res.status = 200
  /\ req.templateType = "cart_abandon"
  /\ parked.req.templateType = "post_purchase"
  /\ req.blocks = parked.req.blocks
  /\ res.body.mjml # parked.res.body.mjml

\* C18: two calls for the same document (category, subject, preheader and
\* blocks) produce the same intermediate markup.
C18_Deterministic ==
  (/\ req = parked.req
   /\ "assemble" \in Pieces(steps)
   /\ "assemble" \in Pieces(parked.steps))
  => mjmlContent = parked.mjmlContent

C18_Witness ==
  /\ req = parked.req
  /\ pc = "lower"
  /\ parked.pc = "done"
  /\ Len(Blocks) = 1
  /\ Blocks[1].type = "recommendations"
  /\ mjmlContent = parked.mjmlContent
  /\ Len(mjmlContent) > 0

\* The head pieces of the document in template order.
HeadOrder ==
  <<"<mjml>", "<mj-head>", "<mj-title>", "</mj-title>", "<mj-preview>",
    "</mj-preview>", "<mj-attributes>", "<mj-text color=",
    "<mj-button background-color=", "</mj-attributes>", "<mj-style>",
    ".content-padding { padding: ", ".section-spacing { padding-top: ",
    "</mj-style>", "</mj-head>", "<mj-body background-color=">>

\* C19: in the intermediate markup the head (title from subject, preview
\* from preheader, default text and button attributes, the two spacing
\* rules) comes before the body, and the fragments lie inside the body.
C19_HeadBeforeBody ==
  (pc = "lower") =>
    LET m == mjmlContent
        at(piece) == FirstIndex(m, piece)
        n == Len(m)
    IN  /\ \A i \in 1..Len(HeadOrder) : Count(m, HeadOrder[i]) = 1
        /\ \A i \in 1..(Len(HeadOrder) - 1) : at(HeadOrder[i]) < at(HeadOrder[i + 1])
        /\ m[at("<mj-title>") + 1] = Str(req.subject)
        /\ m[at("<mj-preview>") + 1] = Str(req.preheader)
        /\ m[at(".content-padding { padding: ") + 1] = "16px"
        /\ m[at(".content-padding { padding: ") + 3] = "24px"
        /\ m[at(".section-spacing { padding-top: ") + 1] = "32px"
        /\ m[n - 1] = "</mj-body>"
        /\ m[n] = "</mjml>"
        /\ SubSeq(m, BodyBase + 1, n - 2) = mjmlBlocks
        /\ \A k \in 1..Len(Blocks) :
             /\ BodyBase + Offsets[k] + Len(Fragments[k]) <= n - 2
             /\ StateFragment(k) = Fragments[k]

C19_Witness ==
  /\ pc = "lower"
  /\ req.blocks.js = "array"
  /\ Blocks = << >>
  /\ FirstIndex(mjmlContent, "</mj-head>") > 0
  /\ FirstIndex(mjmlContent, "</mj-head>") + 4 = FirstIndex(mjmlContent, "</mj-body>")

\* C20: from the arrival of a request to the return of the handler the
\* request document does not change, and the resolved tokens do not
\* change once resolved.
C20_InputsUnchanged ==
  [][(pc # "idle" /\ pc' # "idle") =>
       /\ req' = req
       /\ Resolved => tokens' = tokens]_vars

C20_Witness ==
  /\ pc = "done"
  /\ res.status = 200
  /\ Len(Blocks) = 1
  /\ ListBlock(1, "recommendations")
  /\ Len(Blocks[1].items.elems) = MaxItems
  /\ Count(res.body.mjml, ColumnOpen) = 3
  /\ GetPath(tokens, <<"colors", "primary">>) = PrimaryOf("post_purchase")
  /\ req.templateType = "post_purchase"

(* Helpers of the claims about whole documents. *)
\* How often a piece is directly followed by another piece in a markup.
CountPair(markup, a, b) ==
  Cardinality({i \in 1..(Len(markup) - 1) : markup[i] = a /\ markup[i + 1] = b})

ScenarioBlocks == <<HeroBlock("H", "", ""), FooterBlock("L", "pu", "uu")>>

Scenario ==
  /\ pc = "lower"
  /\ req.templateType = "cart_abandon"
  /\ req.subject = "S"
  /\ req.preheader = "P"
  /\ req.blocks = Arr(ScenarioBlocks)

\* C21: for the document cart_abandon / S / P with the blocks Hero(H, "", "")
\* and Footer(L, pu, uu) the intermediate markup has exactly one heading
\* text H, no image element, no subcopy text element, and one footer
\* section with the text L followed by a link to pu and then a link to uu;
\* the hero section comes before the footer section.
C21_EndToEnd ==
  Scenario =>
    LET m == mjmlContent
        at(piece) == FirstIndex(m, piece)
    IN  /\ Count(m, "H") = 1
        /\ CountPair(m, "H", "</mj-text>") = 1
        /\ m[at("H") - 2] = Tk(tokens, "spacing", "md")
        /\ Count(m, "<mj-image src=") = 0
        /\ Count(StateFragment(1), "</mj-text>") = 1
        /\ "" \notin Pieces(m)
        /\ Count(m, "<mj-divider border-color=") = 1
        /\ Count(m, "<mj-section background-color=") = 2
        /\ Count(m, "</mj-section>") = 2
        /\ CountPair(m, "L", "</mj-text>") = 1
        /\ Count(m, "<a href=") = 2
        /\ CountPair(m, "<a href=", "pu") = 1
        /\ CountPair(m, "<a href=", "uu") = 1
        /\ at("L") < at("pu")
        /\ at("pu") < at("uu")
        /\ at("H") < at("<mj-divider border-color=")
        /\ FirstIndex(m, "</mj-section>") < at("<mj-divider border-color=")
        /\ GetPath(tokens, <<"colors", "primary">>) = PrimaryOf("cart_abandon")

C21_Witness ==
  /\ Scenario
  /\ FirstIndex(mjmlContent, "H") > 0
  /\ FirstIndex(mjmlContent, "H") < FirstIndex(mjmlContent, "uu")

\* C27: an Items block with n >= 1 items renders n item columns, one per
\* item in the supplied order and without a cap, after exactly one title
\* section.
C27_ItemsNoCap ==
  (pc = "lower") =>
    \A k \in 1..Len(Blocks) :
      (ListBlock(k, "items") /\ Len(Blocks[k].items.elems) >= 1) =>
        LET items == Blocks[k].items.elems
            frag == StateFragment(k)
            first == FirstIndex(frag, ColumnOpen)
        IN  /\ Count(frag, ColumnOpen) = Len(items)
            /\ SelectSeq(frag, IsPrice) = [i \in 1..Len(items) |-> items[i].price]
            /\ \A i \in 1..Len(items) : CountPair(frag, "<mj-image src=", items[i].imageUrl) = 1
            /\ Count(frag, "<mj-section background-color=") = 2
            /\ Count(frag, "<mj-column>") = 1
            /\ CountPair(frag, Str(Blocks[k].title), "</mj-text>") = 1
            /\ FirstIndex(frag, Str(Blocks[k].title)) < first
            /\ FirstIndex(frag, "</mj-section>") < first

C27_Witness ==
  /\ pc = "lower"
  /\ Len(Blocks) = 1
  /\ ListBlock(1, "items")
  /\ Len(Blocks[1].items.elems) = MaxItems
  /\ Count(mjmlContent, ColumnOpen) = MaxItems

\* The steps of a render that reached its response.
FullPipeline == <<"resolve", "compile", "assemble", "lower">>

EmptyDocument ==
  /\ pc # "idle"
  /\ Truthy(req.templateType)
  /\ req.blocks = Arr(<< >>)

\* C28: a document with a category and an empty block sequence is not
\* rejected: the pipeline runs, and the intermediate markup is the head
\* and an empty body.
C28_EmptyDocumentValid ==
  EmptyDocument =>
    /\ pc = "done" => (res.status # 400 /\ steps = FullPipeline)
    /\ pc \in {"lower", "respond", "done"} =>
         LET m == mjmlContent
             n == Len(m)
         IN  /\ mjmlBlocks = << >>
             /\ m[n] = "</mjml>"
             /\ m[n - 1] = "</mj-body>"
             /\ m[n - 2] = ">"
             /\ m[n - 4] = "<mj-body background-color="
             /\ m[n - 5] = "</mj-head>"
             /\ m[2] = "<mj-head>"
             /\ Count(m, "<mj-section background-color=") = 0
             /\ Count(m, "<mj-column>") = 0
    /\ (pc = "done" /\ res.status = 200) => res.body.mjml = mjmlContent

C28_Witness ==
  /\ EmptyDocument
  /\ pc = "done"
  /\ res.status = 200
  /\ Count(res.body.mjml, "<mj-body background-color=") = 1
  /\ Count(res.body.mjml, "</mj-text>") = 0

\* A call of /compile that has sent its response.
CompileDone == pc = "done" /\ "mjml" \in DOMAIN req

\* C29: /compile answers missing or empty content with 400 and does not
\* lower; otherwise it lowers exactly once and answers 200 with the final
\* markup and the lowering issues as warnings (the empty list when there
\* are none); when lowering throws it answers 500 with no markup.
C29_CompileEndpoint ==
  CompileDone =>
    IF req.mjml.js # "string" \/ req.mjml.text = << >>
    THEN /\ res = [status |-> 400, body |-> [error |-> "Missing MJML content"]]
         /\ steps = << >>
         /\ lowered = NoLowered
    ELSE /\ steps = <<"lower">>
         /\ thrown = "" =>
              /\ res.status = 200
              /\ DOMAIN res.body = {"html", "warnings"}
              /\ res.body.html = Html(req.mjml.text)
              /\ lowered.errors.js = "array" => res.body.warnings = lowered.errors.elems
              /\ lowered.errors.js # "array" => res.body.warnings = << >>
         /\ thrown # "" =>
              /\ res.status = 500
              /\ DOMAIN res.body = {"error", "message"}
              /\ res.body.error = "Failed to compile MJML"
              /\ lowered = NoLowered

C29_Witness ==
  /\ CompileDone
  /\ res.status = 200
  /\ lowered.errors.js = "undefined"
  /\ res.body.warnings = << >>
  /\ Len(res.body.html) > 3

(* Helpers of the claims about the page. *)
\* No stream can deliver anything any more and no deferred call is pending.
Quiet ==
  /\ \A s \in 1..MaxGenerations : streams[s].state \in {"none", "closed"}
  /\ timers = << >>

\* C22: every generation started from the page ends: when its stream has
\* ended, whatever it delivered, onComplete or onError has been invoked,
\* isGenerating is false again and the loader is hidden.
C22_GenerationEnds ==
  Quiet => (~isGenerating /\ ~showMultiAgentLoader)

\* C23: a result or an error is delivered to the page only by the stream of
\* the most recently started generation and only while the loader is
\* shown; the deferred onComplete call of a result event included.
C23_OnlyCurrentGeneration ==
  lastCall.kind # "none" =>
    (lastCall.visible /\ lastCall.stream = lastCall.generation)

\* C24: result and generationError are never both set.
C24_ResultOrError ==
  ~(result.js # "null" /\ generationError # Null)

\* C25: isGenerating equals showMultiAgentLoader in every state of the
\* page.
C25_BusyIffLoader ==
  isGenerating = showMultiAgentLoader

C25_Witness ==
  /\ lastCall.kind = "error"
  /\ lastCall.stream = 2
  /\ generationError = "boom"
  /\ ~isGenerating
  /\ ~showMultiAgentLoader

\* C26: completedAgents is the set of the agents before the active agent
\* in the order of the agents list, and the active agent is not in it.
C26_CompletedBeforeActive ==
  /\ completedAgents = CompletedUpTo(findIndex(activeAgent))
  /\ activeAgent \notin completedAgents

\* C30: a proxy route answers with the orchestrator's JSON body only when
\* the orchestrator answered with an ok status; for a non-ok status, a
\* network failure or a body that does not parse it answers 500 with the
\* route's fixed error object and passes on neither the upstream status
\* nor the upstream body.
C30_ProxyGenericError ==
  (proxyPc = "done") =>
    IF upstream.status # 0 /\ Ok(upstream.status) /\ upstream.parsable
    THEN proxyRes = [status |-> 200, body |-> upstream.json]
    ELSE /\ proxyRes.status = 500
         /\ proxyRes.body \in {[error |-> "Failed to generate email"],
                               [error |-> "Failed to upload template"]}
         /\ route = "generate" => proxyRes.body.error = "Failed to generate email"
         /\ route = "upload-template" => proxyRes.body.error = "Failed to upload template"

C30_Witness ==
  /\ proxyPc = "done"
  /\ upstream.status = 422
  /\ upstream.parsable
  /\ upstream.json = [detail |-> "upstream failure"]
  /\ proxyRes.status = 500
  /\ route = "upload-template"

====
